---- MODULE Spec2Model ----
(***************************************************************************)
(* Model of parse_bs_table (src/src/dataproc/get_ethnicity.py): the        *)
(* reconstruction of a dense table from HTML rows whose <td> cells may     *)
(* carry a rowspan attribute.  One action per loop iteration (lines        *)
(* 61-95) and one for the construction of the returned DataFrame (lines    *)
(* 97-101).  The <tr> rows are drawn one at a time; `rows` keeps the rows  *)
(* consumed so far.                                                        *)
(***************************************************************************)
EXTENDS Integers, Sequences, FiniteSets, TLC

\* ---- bounds of the model ----
MaxW == 2          \* header widths 0..MaxW
MaxRows == 3       \* <tr> data rows per table
MaxSpan == 3       \* rowspan attribute values "1".."MaxSpan"
MaxCells == 4      \* <td> cells of the whole table
MaxMembers == 2    \* rows of member_data, and of characteristic_data

VARIABLES
    headers,           \* the non-empty <th> texts (lines 39-40)
    rows,              \* the <tr> rows consumed so far, each a sequence of <td>
    row_data,          \* line 48: the cleaned rows built so far
    previous_pattern,  \* line 58/95: the span pattern carried to the next row
    origin,            \* per built row and column: index of the <td> popped at
                       \* line 88, or 0 when the value was copied at line 91
    pc,                \* "loop" | "returned" | "raised"
    exc,               \* name of the exception raised, "" when none
    exc_args,          \* the message of the exception raised, word by word
    ret,               \* <<>> or <<DataFrame>>: what the call returned
    \* history of the input, kept for the claims and read by no step of the code
    owed,              \* owed[i + 1][c]: the rows after row i that a span
                       \* declared in rows 1..i still covers in column c
    fit,               \* fit[i]: row i supplies exactly one cell per column
                       \* that no span declared in earlier rows covers
    \* a second call on the same table
    first_call,        \* <<>>, or <<how the first call ended and what it built>>
    \* clean_ethnicity
    data,              \* the DataFrame passed to clean_ethnicity
    \* add_characteristics
    member_data,       \* the DataFrame of the members
    characteristic_data, \* the DataFrame of the characteristics
    reported           \* the rows written to logs/missing_identifiers.csv

vars == <<headers, rows, row_data, previous_pattern, origin, pc, exc, exc_args,
          ret, owed, fit, first_call, data,
          member_data, characteristic_data, reported>>

\* the variables of add_characteristics
mergeVars == <<member_data, characteristic_data, reported>>

\* the variables of parse_bs_table and of the calls made on it
parseVars == <<headers, rows, row_data, previous_pattern, origin, owed, fit,
               first_call>>

\* ---- inputs ----
ColNames == <<"A", "B", "C", "D", "E", "F">>

\* cell texts as character sequences: "" and " y "
Texts == {<<>>, <<" ", "y", " ">>}

\* decimal literals of the rowspan attribute
Numerals == <<"0", "1", "2", "3", "4", "5", "6", "7", "8", "9">>

\* negative literals
Negatives == <<"-1", "-2", "-3">>

str(n) == IF n < 0 THEN Negatives[0 - n] ELSE Numerals[n + 1]

\* a <td>: its text and its attrs: rowspan is <<>> when the attribute is
\* absent and <<literal>> when present
Cells == [text : Texts, rowspan : {<<>>} \cup {<<str(n)>> : n \in 1..MaxSpan}]

RawRows(n) == UNION {[1..k -> Cells] : k \in 0..n}

RECURSIVE CellCount(_)
CellCount(rs) == IF rs = <<>> THEN 0 ELSE Len(Head(rs)) + CellCount(Tail(rs))

Min(a, b) == IF a < b THEN a ELSE b

\* a <tr> holds at most as many <td> as there are headers, within the
\* table's budget of cells
MaxRowLen == Min(Len(headers), MaxCells - CellCount(rows))

\* ---- helpers of the code ----
\* int(): the integer a decimal literal denotes
Literals ==
    [s \in {Numerals[i] : i \in 1..Len(Numerals)}
            \cup {Negatives[i] : i \in 1..Len(Negatives)} |->
        IF \E i \in 1..Len(Negatives) : Negatives[i] = s
        THEN 0 - (CHOOSE i \in 1..Len(Negatives) : Negatives[i] = s)
        ELSE (CHOOSE i \in 1..Len(Numerals) : Numerals[i] = s) - 1]

int(s) == Literals[s]

IsSpace(ch) == ch = " "

RECURSIVE lstrip(_)
lstrip(t) == IF t # <<>> /\ IsSpace(Head(t)) THEN lstrip(Tail(t)) ELSE t

RECURSIVE rstrip(_)
rstrip(t) ==
    IF t # <<>> /\ IsSpace(t[Len(t)]) THEN rstrip(SubSeq(t, 1, Len(t) - 1)) ELSE t

\* str.strip()
strip(t) == rstrip(lstrip(t))

\* line 89: td.get_text().strip()
get_text_strip(td) == strip(td.text)

\* mutant: a td without the attribute counts as 0
rowspan_default0(td) == IF td.rowspan # <<>> THEN int(td.rowspan[1]) ELSE 0

\* line 68: int(td.attrs['rowspan']) if 'rowspan' in td.attrs else 1
rowspan_of(td) == IF td.rowspan # <<>> THEN int(td.rowspan[1]) ELSE 1

\* lines 68-69
row_pattern(tds) == [i \in 1..Len(tds) |-> rowspan_of(tds[i])]

\* mutant: a pattern entry read as the number of rows still owed
takes_cell_zero(number) == number = 0

\* lines 76 and 87: the column takes a cell of the current row
takes_cell(number) == number = 1

\* mutant: the carried entry is not counted down
carried_pattern_keep(number) == number

\* line 79: the pattern entry of a column carried from the previous row
carried_pattern(number) == number - 1

\* lines 74-79: walk previous_pattern, popping row_pattern for the columns
\* that take a cell; pop(0) of an empty list raises IndexError
RECURSIVE fill_pattern(_, _, _)
fill_pattern(prev, rp, acc) ==
    IF prev = <<>> THEN [ok |-> TRUE, val |-> acc]
    ELSE IF takes_cell(Head(prev))
         THEN IF rp = <<>> THEN [ok |-> FALSE, val |-> acc]
              ELSE fill_pattern(Tail(prev), Tail(rp), Append(acc, Head(rp)))
         ELSE fill_pattern(Tail(prev), rp, Append(acc, carried_pattern(Head(prev))))

\* mutant: one counter shared by the carried columns, that of the longest span
this_row_pattern_longest(prev, rp, hdrs) ==
    IF Len(rp) < Len(hdrs)
    THEN LET carried == {prev[c] : c \in {d \in 1..Len(prev) : ~takes_cell(prev[d])}}
             longest == CHOOSE m \in carried : \A n \in carried : n <= m
         IN fill_pattern([c \in 1..Len(prev) |->
                             IF takes_cell(prev[c]) THEN prev[c] ELSE longest],
                         rp, <<>>)
    ELSE [ok |-> TRUE, val |-> rp]

\* lines 73-82
this_row_pattern(prev, rp, hdrs) ==
    IF Len(rp) < Len(hdrs)
    THEN fill_pattern(prev, rp, <<>>)
    ELSE [ok |-> TRUE, val |-> rp]

\* mutant: row_data[0][col_idx]
first_row_value(rd, col_idx) ==
    IF col_idx <= Len(rd[1]) THEN rd[1][col_idx] ELSE rd[Len(rd)][col_idx]

\* mutant: the last non-empty value of the column (a forward fill)
last_nonempty_value(rd, col_idx) ==
    LET filled == {i \in 1..Len(rd) : col_idx <= Len(rd[i]) /\ rd[i][col_idx] # <<>>}
    IN IF filled = {} THEN rd[Len(rd)][col_idx]
       ELSE rd[CHOOSE i \in filled : \A j \in filled : j <= i][col_idx]

\* line 91: row_data[-1][col_idx]
last_row_value(rd, col_idx) == rd[Len(rd)][col_idx]

\* the messages of the IndexError of list.pop and of list indexing
PopFromEmptyList == "pop from empty list"
ListIndexOutOfRange == "list index out of range"

\* mutant: tds.pop(), the last td left
pop_last(tds, popped) == Len(tds) - popped

\* line 88: tds.pop(0): the index in the row of the td popped, when popped
\* tds were popped before it
pop0(tds, popped) == popped + 1

\* lines 85-91: the values of the row; popped counts the tds popped so far
RECURSIVE build_row(_, _, _, _, _, _, _)
build_row(prev, tds, rd, col_idx, popped, vals, src) ==
    IF col_idx > Len(prev)
    THEN [ok |-> TRUE, vals |-> vals, src |-> src, msg |-> ""]
    ELSE IF takes_cell(prev[col_idx])
         THEN IF popped >= Len(tds)
              THEN [ok |-> FALSE, vals |-> vals, src |-> src,
                    msg |-> PopFromEmptyList]
              ELSE build_row(prev, tds, rd, col_idx + 1, popped + 1,
                             Append(vals, get_text_strip(tds[pop0(tds, popped)])),
                             Append(src, pop0(tds, popped)))
         ELSE IF rd = <<>> \/ col_idx > Len(rd[Len(rd)])
              THEN [ok |-> FALSE, vals |-> vals, src |-> src,
                    msg |-> ListIndexOutOfRange]
              ELSE build_row(prev, tds, rd, col_idx + 1, popped,
                             Append(vals, last_row_value(rd, col_idx)),
                             Append(src, 0))

this_row(prev, tds, rd) == build_row(prev, tds, rd, 1, 0, <<>>, <<>>)

\* lines 61-95: one iteration of the loop: the row built, the index of the
\* td each value came from, and the pattern carried on; ok is FALSE when a
\* pop(0) or an index raises IndexError, msg being its message (the pop of
\* line 77 comes before the ones of lines 88 and 91)
iteration(prev, tds, rd, hdrs) ==
    LET pat == this_row_pattern(prev, row_pattern(tds), hdrs)
        row == this_row(prev, tds, rd)
    IN [ok |-> pat.ok /\ row.ok, row |-> row.vals, src |-> row.src,
        pattern |-> pat.val,
        msg |-> IF ~pat.ok THEN PopFromEmptyList ELSE row.msg]

\* line 97: pd.DataFrame(data=row_data, columns=headers) pads ragged rows to
\* the longest one and raises ValueError when that width is not len(columns)
DataFrameOk(rd, hdrs) ==
    \/ rd = <<>>
    \/ /\ \E i \in 1..Len(rd) : Len(rd[i]) = Len(hdrs)
       /\ \A i \in 1..Len(rd) : Len(rd[i]) <= Len(hdrs)

DataFrame(rd, hdrs) == [columns |-> hdrs, data |-> rd]

\* the widest row of the data
RECURSIVE widest(_)
widest(rd) ==
    IF rd = <<>> THEN 0
    ELSE LET w == widest(Tail(rd))
         IN IF Len(Head(rd)) > w THEN Len(Head(rd)) ELSE w

\* the message of the ValueError of pd.DataFrame, word by word: "<n> columns
\* passed, passed data had <m> columns"
DataFrameError(rd, hdrs) ==
    <<str(Len(hdrs)), "columns passed, passed data had", str(widest(rd)), "columns">>

\* lines 58-95 as a function of the rows: the loop from a given state
RECURSIVE loop(_, _, _, _, _)
loop(hdrs, rs, rd, src, prev) ==
    IF rs = <<>>
    THEN [ok |-> TRUE, row_data |-> rd, src |-> src, pattern |-> prev, msg |-> ""]
    ELSE LET it == iteration(prev, Head(rs), rd, hdrs)
         IN IF it.ok
            THEN loop(hdrs, Tail(rs), Append(rd, it.row), Append(src, it.src),
                      it.pattern)
            ELSE [ok |-> FALSE, row_data |-> rd, src |-> src, pattern |-> prev,
                  msg |-> it.msg]

\* lines 58-101: the outcome of one call
parse_bs_table(hdrs, rs) ==
    LET l == loop(hdrs, rs, <<>>, <<>>, [i \in 1..Len(hdrs) |-> 1])
    IN IF ~l.ok THEN [exc |-> "IndexError", ret |-> <<>>]
       ELSE IF DataFrameOk(l.row_data, hdrs)
            THEN [exc |-> "", ret |-> <<DataFrame(l.row_data, hdrs)>>]
            ELSE [exc |-> "ValueError", ret |-> <<>>]

\* a DataFrame: the labels of its index, its columns, and its rows, each a
\* function of the column names
NoData == [index |-> <<>>, columns |-> <<>>, rows |-> <<>>]

\* ---- the state machine ----
Init ==
    /\ headers \in {SubSeq(ColNames, 1, w) : w \in 0..MaxW}
    /\ rows = <<>>
    /\ row_data = <<>>
    /\ previous_pattern = [i \in 1..Len(headers) |-> 1]
    /\ origin = <<>>
    /\ pc = "loop"
    /\ exc = ""
    /\ exc_args = <<>>
    /\ ret = <<>>
    /\ owed = <<[c \in 1..Len(headers) |-> 0]>>
    /\ fit = <<>>
    /\ first_call = <<>>
    /\ data = NoData
    /\ member_data = NoData
    /\ characteristic_data = NoData
    /\ reported = <<>>

\* mutant: a row that cannot be filled is skipped
ParseRowSkip(tds) ==
    /\ pc = "loop"
    /\ Len(rows) < MaxRows
    /\ rows' = Append(rows, tds)
    /\ \E it \in {iteration(previous_pattern, tds, row_data, headers)} :
          IF it.ok
          THEN /\ row_data' = Append(row_data, it.row)
               /\ origin' = Append(origin, it.src)
               /\ previous_pattern' = it.pattern
          ELSE UNCHANGED <<row_data, origin, previous_pattern>>
    /\ UNCHANGED <<headers, pc, exc, exc_args, ret>>

\* lines 61-95: one iteration of the loop over rows[1:]
ParseRow(tds) ==
    /\ pc = "loop"
    /\ Len(rows) < MaxRows
    /\ rows' = Append(rows, tds)
    /\ \E it \in {iteration(previous_pattern, tds, row_data, headers)} :
          IF it.ok
          THEN /\ row_data' = Append(row_data, it.row)
               /\ origin' = Append(origin, it.src)
               /\ previous_pattern' = it.pattern
               /\ UNCHANGED <<pc, exc, exc_args, ret>>
          ELSE /\ pc' = "raised"
               /\ exc' = "IndexError"
               /\ exc_args' = <<it.msg>>
               /\ UNCHANGED <<row_data, origin, previous_pattern, ret>>
    /\ UNCHANGED headers

\* mutant: a span still open after the last row is an error
ReturnNoOpenSpan ==
    /\ pc = "loop"
    /\ IF /\ DataFrameOk(row_data, headers)
          /\ \A c \in 1..Len(previous_pattern) : takes_cell(previous_pattern[c])
       THEN /\ pc' = "returned"
            /\ ret' = <<DataFrame(row_data, headers)>>
            /\ UNCHANGED <<exc, exc_args>>
       ELSE /\ pc' = "raised"
            /\ exc' = "ValueError"
            /\ exc_args' = DataFrameError(row_data, headers)
            /\ ret' = ret
    /\ UNCHANGED <<headers, rows, row_data, previous_pattern, origin>>

\* lines 97-101: the rows are exhausted; build and return the DataFrame
Return ==
    /\ pc = "loop"
    /\ IF DataFrameOk(row_data, headers)
       THEN /\ pc' = "returned"
            /\ ret' = <<DataFrame(row_data, headers)>>
            /\ UNCHANGED <<exc, exc_args>>
       ELSE /\ pc' = "raised"
            /\ exc' = "ValueError"
            /\ exc_args' = DataFrameError(row_data, headers)
            /\ ret' = ret
    /\ UNCHANGED <<headers, rows, row_data, previous_pattern, origin>>

\* ---- the input as the claims describe it ----
W == Len(headers)

\* the text extracted from a <td>, for each text a <td> can hold
Extracted == [t \in Texts |-> strip(t)]

\* a cell's text value: the text extracted from the <td>
CellText(td) == Extracted[td.text]

\* a cell's span count: the rowspan attribute, 1 when it is absent
SpanCount(td) == IF td.rowspan = <<>> THEN 1 ELSE int(td.rowspan[1])

\* the columns not owned by an active span, st[c] being the number of
\* following rows still owed a copy in column c
FreeCols(st) == {c \in 1..Len(st) : st[c] = 0}

\* the k-th column not owned by a span is the one that takes the k-th cell
CellFor(st, c) == Cardinality({d \in FreeCols(st) : d <= c})

\* the span state after a row, from the one before it
NextOwed(st, row) ==
    [c \in 1..Len(st) |->
        IF st[c] > 0 THEN st[c] - 1
        ELSE IF CellFor(st, c) <= Len(row) /\ SpanCount(row[CellFor(st, c)]) > 1
             THEN SpanCount(row[CellFor(st, c)]) - 1
             ELSE 0]

\* the row supplies exactly one cell per column not owned by an active
\* span, each with a positive span count
Fits(st, row) ==
    /\ Len(row) = Cardinality(FreeCols(st))
    /\ \A k \in 1..Len(row) : SpanCount(row[k]) >= 1

\* the span state after the first i rows
Owed(i) == owed[i + 1]

\* each of the first n rows fits the span state left by the rows before it
WellFormedUpTo(n) == \A i \in 1..n : fit[i]

WellFormed == WellFormedUpTo(Len(rows))

\* ---- the specification ----
\* the history of a row drawn
Observe(tds) ==
    /\ owed' = Append(owed, NextOwed(owed[Len(owed)], tds))
    /\ fit' = Append(fit, Fits(owed[Len(owed)], tds))

\* The rows drawn follow the data model (each row supplies one cell per
\* column not owned by an active span) up to a first row that does not,
\* which is then the last row of the input.
Next ==
    \/ /\ WellFormed
       /\ \E tds \in RawRows(MaxRowLen) : ParseRow(tds) /\ Observe(tds)
       /\ UNCHANGED <<first_call, data, mergeVars>>
    \/ Return /\ UNCHANGED <<owed, fit, first_call, data, mergeVars>>

Spec == Init /\ [][Next]_vars

\* ---- the specification over rows of any shape ----
\* a <td> whose rowspan attribute may also be "0" or negative
WideCells ==
    [text : Texts, rowspan : {<<>>} \cup {<<str(n)>> : n \in (0 - 1)..MaxSpan}]

WideRows(n) == UNION {[1..k -> WideCells] : k \in 0..n}

\* a <tr> may hold one <td> more than there are headers
MaxWideRowLen == Min(Len(headers) + 1, MaxCells - CellCount(rows))

\* Every row is drawn freely, whether or not it follows the data model,
\* and the loop goes on after a row that does not.
NextWide ==
    \/ /\ \E tds \in WideRows(MaxWideRowLen) : ParseRow(tds) /\ Observe(tds)
       /\ UNCHANGED <<first_call, data, mergeVars>>
    \/ Return /\ UNCHANGED <<owed, fit, first_call, data, mergeVars>>

SpecWide == Init /\ [][NextWide]_vars

\* ---- the specification of two calls on the same table ----
\* how a call ended and what it built
Outcome ==
    [exc |-> exc, exc_args |-> exc_args, ret |-> ret, rows |-> rows,
     row_data |-> row_data]

\* lines 58-101 for the rows of the table, from the pattern `prev`
CallFrom(prev) ==
    /\ pc # "loop"
    /\ first_call = <<>>
    /\ first_call' = <<Outcome>>
    /\ \E l \in {loop(headers, rows, <<>>, <<>>, prev)} :
          /\ row_data' = l.row_data
          /\ origin' = l.src
          /\ previous_pattern' = l.pattern
          /\ IF ~l.ok
             THEN /\ pc' = "raised"
                  /\ exc' = "IndexError"
                  /\ exc_args' = <<l.msg>>
                  /\ ret' = <<>>
             ELSE IF DataFrameOk(l.row_data, headers)
                  THEN /\ pc' = "returned"
                       /\ exc' = ""
                       /\ exc_args' = <<>>
                       /\ ret' = <<DataFrame(l.row_data, headers)>>
                  ELSE /\ pc' = "raised"
                       /\ exc' = "ValueError"
                       /\ exc_args' = DataFrameError(l.row_data, headers)
                       /\ ret' = <<>>
    /\ UNCHANGED <<headers, rows, owed, fit, data, mergeVars>>

\* mutant: the pattern is a module-level list that the call does not reset
CallKeepPattern == CallFrom(previous_pattern)

\* lines 37-101: parse_bs_table is called again on the table of the call
\* that ended: the headers and the rows are read from the table again, and
\* row_data and previous_pattern are created anew
Call == CallFrom([i \in 1..Len(headers) |-> 1])

\* The first call runs on rows drawn as in Next; the second call is made
\* on the rows the first one was given.
NextTwice ==
    \/ /\ first_call = <<>>
       /\ WellFormed
       /\ \E tds \in RawRows(MaxRowLen) : ParseRow(tds) /\ Observe(tds)
       /\ UNCHANGED <<first_call, data, mergeVars>>
    \/ /\ first_call = <<>>
       /\ Return
       /\ UNCHANGED <<owed, fit, first_call, data, mergeVars>>
    \/ Call

SpecTwice == Init /\ [][NextTwice]_vars

\* ---- clean_ethnicity (lines 104-142) ----
\* lines 104-106: the default column names
name_col == "Name"
ethnicity_col == "Ethnicity"
status_col == "Reason for tenure ending"

\* line 138: the columns dropped
dropped_columns == <<"Portrait", "Year elected", "Year left">>

\* the columns of the table: the ones the function names
EthnicityColumns ==
    <<"Portrait", "Name", "Ethnicity", "Year elected", "Year left",
      "Reason for tenure ending">>

\* line 135: 'Serving'
Serving == <<"S", "e", "r", "v", "i", "n", "g">>

\* the texts of the table, as character sequences: names and ethnicities
\* with and without a citation mark, and three statuses
NameTexts == {<<"A">>, <<"A", "[", "1", "]">>, <<"B">>}
EthnicityTexts == {<<"E">>, <<"E", "[", "2", "]">>}
StatusTexts == {Serving, Serving \o <<"[", "3", "]">>, <<"D", "i", "e", "d">>}

EthnicityRows ==
    {[c \in {EthnicityColumns[k] : k \in 1..Len(EthnicityColumns)} |->
         IF c = name_col THEN n
         ELSE IF c = ethnicity_col THEN e
         ELSE IF c = status_col THEN st
         ELSE <<>>] :
     n \in NameTexts, e \in EthnicityTexts, st \in StatusTexts}

\* the table of the given rows, with the default RangeIndex
EthnicityData(r) ==
    [index |-> [i \in 1..Len(r) |-> i - 1], columns |-> EthnicityColumns, rows |-> r]

\* str.split(sep): the pieces of t between the occurrences of sep
RECURSIVE split(_, _)
split(t, sep) ==
    IF \E i \in 1..Len(t) : t[i] = sep
    THEN LET i == CHOOSE j \in 1..Len(t) :
                     t[j] = sep /\ \A k \in 1..(j - 1) : t[k] # sep
         IN <<SubSeq(t, 1, i - 1)>> \o split(SubSeq(t, i + 1, Len(t)), sep)
    ELSE <<t>>

\* Series.str.split(sep, expand=True): one row of pieces per element; the
\* frame has as many columns, 0, 1, ..., as the longest row has pieces, and
\* so none when the series is empty
str_split_expand(series, sep) == [i \in 1..Len(series) |-> split(series[i], sep)]

\* frame[col]
getitem(frame, col) == [i \in 1..Len(frame.rows) |-> frame.rows[i][col]]

\* frame[col] = series
setitem(frame, col, series) ==
    [frame EXCEPT !.rows =
        [i \in 1..Len(frame.rows) |-> [frame.rows[i] EXCEPT ![col] = series[i]]]]

\* lines 128 and 131: data[col] = data[col].str.split('[', expand=True)[0];
\* [0] raises KeyError when the expanded frame has no column 0
remove_citations(frame, col) ==
    LET expanded == str_split_expand(getitem(frame, col), "[")
    IN IF widest(expanded) = 0
       THEN [ok |-> FALSE, frame |-> frame]
       ELSE [ok |-> TRUE,
             frame |-> setitem(frame, col,
                               [i \in 1..Len(expanded) |-> expanded[i][1]])]

\* frame[mask]: the rows whose mask is True, with their index labels
boolean_index(frame, mask) ==
    LET kept == SelectSeq([i \in 1..Len(frame.rows) |-> i], LAMBDA i : mask[i])
    IN [index |-> [k \in 1..Len(kept) |-> frame.index[kept[k]]],
        columns |-> frame.columns,
        rows |-> [k \in 1..Len(kept) |-> frame.rows[kept[k]]]]

\* mutant: the rows that are not serving are kept as well
mask_all(frame) == [i \in 1..Len(frame.rows) |-> TRUE]

\* line 135: data[status_col] == 'Serving'
mask_serving(frame) ==
    [i \in 1..Len(frame.rows) |-> getitem(frame, status_col)[i] = Serving]

\* line 138: frame.drop(columns=cols), for columns the frame has
drop(frame, cols) ==
    LET gone == {cols[k] : k \in 1..Len(cols)}
        left == SelectSeq(frame.columns, LAMBDA c : c \notin gone)
    IN [index |-> frame.index,
        columns |-> left,
        rows |-> [i \in 1..Len(frame.rows) |->
                     [c \in {left[k] : k \in 1..Len(left)} |-> frame.rows[i][c]]]]

\* lines 126-142: what the call does to the caller's frame (lines 128 and
\* 131 assign into it), and what it raises or returns
clean_ethnicity(d) ==
    LET names == remove_citations(d, name_col)
        ethnicities == remove_citations(names.frame, ethnicity_col)
    IN IF ~names.ok
       THEN [exc |-> "KeyError", exc_args |-> <<"0">>, data |-> d, ret |-> <<>>]
       ELSE IF ~ethnicities.ok
            THEN [exc |-> "KeyError", exc_args |-> <<"0">>,
                  data |-> names.frame, ret |-> <<>>]
            ELSE [exc |-> "", exc_args |-> <<>>,
                  data |-> ethnicities.frame,
                  ret |-> <<drop(boolean_index(ethnicities.frame,
                                               mask_serving(ethnicities.frame)),
                                 dropped_columns)>>]

InitClean ==
    /\ headers = <<>>
    /\ rows = <<>>
    /\ row_data = <<>>
    /\ previous_pattern = <<>>
    /\ origin = <<>>
    /\ owed = <<>>
    /\ fit = <<>>
    /\ first_call = <<>>
    /\ pc = "clean_ethnicity"
    /\ exc = ""
    /\ exc_args = <<>>
    /\ ret = <<>>
    /\ \E n \in 0..MaxRows : \E r \in [1..n -> EthnicityRows] :
          data = EthnicityData(r)
    /\ member_data = NoData
    /\ characteristic_data = NoData
    /\ reported = <<>>

\* lines 104-142: one call of clean_ethnicity
CleanEthnicity ==
    /\ pc = "clean_ethnicity"
    /\ LET r == clean_ethnicity(data)
       IN /\ data' = r.data
          /\ exc' = r.exc
          /\ exc_args' = r.exc_args
          /\ ret' = r.ret
          /\ pc' = IF r.exc = "" THEN "returned" ELSE "raised"
    /\ UNCHANGED <<parseVars, mergeVars>>

NextClean == CleanEthnicity

SpecClean == InitClean /\ [][NextClean]_vars

\* ---- add_characteristics (characteristics.py, lines 75-141) ----
\* lines 109-111: the merge columns of the configuration; line 122 reads
\* '@Member_Id' from the merged frame and line 126 drops the two name
\* columns before the second merge
default_columns == <<"@Member_Id", "DisplayAs", "ListAs">>
backup_columns == <<"@Member_Id">>

\* lines 57-58 and 65-66: the columns of the two frames
MemberColumns == <<"@Member_Id", "DisplayAs", "ListAs", "MemberFrom", "Party.#text">>
CharacteristicColumns == <<"@Member_Id", "DisplayAs", "ListAs", "clearName">>

Range(seq) == {seq[k] : k \in 1..Len(seq)}

MemberIds == {"172", "4212"}
DisplayNames == {"Ann", "Bob"}
ClearNames == {"ann", "bob"}

MemberRows ==
    {[c \in Range(MemberColumns) |->
         IF c = "@Member_Id" THEN id
         ELSE IF c = "DisplayAs" THEN name
         ELSE IF c = "ListAs" THEN "L"
         ELSE "-"] : id \in MemberIds, name \in DisplayNames}

CharacteristicRows ==
    {[c \in Range(CharacteristicColumns) |->
         IF c = "@Member_Id" THEN id
         ELSE IF c = "DisplayAs" THEN name
         ELSE IF c = "ListAs" THEN "L"
         ELSE clear] : id \in MemberIds, name \in DisplayNames, clear \in ClearNames}

\* a frame of the given columns and rows, with the default RangeIndex
Frame(columns, r) ==
    [index |-> [i \in 1..Len(r) |-> i - 1], columns |-> columns, rows |-> r]

\* the value of a cell that the merge could not fill
NaN == "NaN"

\* the rows of the merge for one row of the left frame: one row per row of
\* the right frame that agrees with it on the columns `on`, in the order of
\* the right frame, or one row of NaN marked left_only
merge_row(l, right, on, how) ==
    LET extra == Range(right.columns) \ Range(on)
        found == SelectSeq(right.rows,
                           LAMBDA r : \A k \in 1..Len(on) : l[on[k]] = r[on[k]])
    IN IF found = <<>>
       THEN IF how = "left"
            THEN <<[c \in DOMAIN l \cup extra \cup {"_merge"} |->
                      IF c = "_merge" THEN "left_only"
                      ELSE IF c \in DOMAIN l THEN l[c] ELSE NaN]>>
            ELSE <<>>
       ELSE [k \in 1..Len(found) |->
                [c \in DOMAIN l \cup extra \cup {"_merge"} |->
                    IF c = "_merge" THEN "both"
                    ELSE IF c \in DOMAIN l THEN l[c] ELSE found[k][c]]]

RECURSIVE merge_rows(_, _, _, _)
merge_rows(left_rows, right, on, how) ==
    IF left_rows = <<>> THEN <<>>
    ELSE merge_row(Head(left_rows), right, on, how)
            \o merge_rows(Tail(left_rows), right, on, how)

\* pd.merge(left, right, on=on, how=how, indicator=True), for frames that
\* share no column besides the ones of `on`
merge(left, right, on, how) ==
    Frame(left.columns
              \o SelectSeq(right.columns, LAMBDA c : c \notin Range(on))
              \o <<"_merge">>,
          merge_rows(left.rows, right, on, how))

\* frame[frame['_merge'] == value]
merged_as(frame, value) ==
    boolean_index(frame, [i \in 1..Len(frame.rows) |-> frame.rows[i]["_merge"] = value])

\* lines 122-123: member_data[member_data['@Member_Id'].isin(
\* missing_characteristics['@Member_Id'])]
missing_members(members, missing_characteristics) ==
    LET ids == Range(getitem(missing_characteristics, "@Member_Id"))
    IN boolean_index(members,
                     [i \in 1..Len(members.rows) |->
                         members.rows[i]["@Member_Id"] \in ids])

\* mutant: the second merge keeps only the rows it matches
secondary_merge_inner(missing_member_data, characteristics) ==
    merge(missing_member_data, characteristics, backup_columns, "inner")

\* lines 129-130
secondary_merge(missing_member_data, characteristics) ==
    merge(missing_member_data, characteristics, backup_columns, "left")

\* line 136: pd.concat([a, b]): the rows of a, then the rows of b, each
\* under the index label it had
concat(a, b) ==
    [index |-> a.index \o b.index, columns |-> a.columns, rows |-> a.rows \o b.rows]

\* lines 57-62 of report_missing_characteristics: the key details appended
\* to the log (the timestamp column left out)
key_details(missing_characteristics) ==
    [i \in 1..Len(missing_characteristics.rows) |->
        [c \in Range(MemberColumns) |-> missing_characteristics.rows[i][c]]]

\* lines 107-141: the frame returned, the caller's characteristic frame as
\* line 126 leaves it (drop(..., inplace=True)), and the rows reported
add_characteristics(members, characteristics) ==
    LET primary_merge == merge(members, characteristics, default_columns, "left")
        missing_member_data ==
            missing_members(members, merged_as(primary_merge, "left_only"))
        dropped == drop(characteristics, <<"DisplayAs", "ListAs">>)
        secondary == secondary_merge(missing_member_data, dropped)
    IN [ret |-> concat(merged_as(primary_merge, "both"), secondary),
        characteristic_data |-> dropped,
        reported |-> key_details(merged_as(secondary, "left_only"))]

InitMerge ==
    /\ headers = <<>>
    /\ rows = <<>>
    /\ row_data = <<>>
    /\ previous_pattern = <<>>
    /\ origin = <<>>
    /\ owed = <<>>
    /\ fit = <<>>
    /\ first_call = <<>>
    /\ data = NoData
    /\ pc = "add_characteristics"
    /\ exc = ""
    /\ exc_args = <<>>
    /\ ret = <<>>
    /\ \E n \in 0..MaxMembers : \E r \in [1..n -> MemberRows] :
          member_data = Frame(MemberColumns, r)
    /\ \E n \in 0..MaxMembers : \E r \in [1..n -> CharacteristicRows] :
          characteristic_data = Frame(CharacteristicColumns, r)
    /\ reported = <<>>

\* lines 75-141: one call of add_characteristics
AddCharacteristics ==
    /\ pc = "add_characteristics"
    /\ LET r == add_characteristics(member_data, characteristic_data)
       IN /\ ret' = <<r.ret>>
          /\ characteristic_data' = r.characteristic_data
          /\ reported' = reported \o r.reported
    /\ pc' = "returned"
    /\ UNCHANGED <<parseVars, data, member_data, exc, exc_args>>

NextMerge == AddCharacteristics

SpecMerge == InitMerge /\ [][NextMerge]_vars

\* the cells written by the call: row r of the output took cell k of row r
\* of the input for column c
Written(r, c) == r \in 1..Len(row_data) /\ c \in 1..Len(origin[r]) /\ origin[r][c] # 0

CellAt(r, c) == rows[r][origin[r][c]]

LastCovered(r, s) == Min(r + s - 1, Len(row_data))

\* C1: for a non-empty header and rows that each supply exactly one cell per
\* column not owned by an active span, the call raises nothing and builds
\* one row of exactly W values per input row, which is what it returns.
C1_DenseRows ==
    (W >= 1 /\ WellFormed) =>
        /\ pc # "raised"
        /\ Len(row_data) = Len(rows)
        /\ \A i \in 1..Len(row_data) : Len(row_data[i]) = W
        /\ pc = "returned" =>
              /\ Len(ret) = 1
              /\ ret[1].columns = headers
              /\ Len(ret[1].data) = Len(rows)
              /\ \A i \in 1..Len(rows) : Len(ret[1].data[i]) = W

C1_Witness ==
    /\ pc = "returned"
    /\ W = 2
    /\ Len(rows) = 3
    /\ WellFormed
    /\ Len(rows[2]) = 1
    /\ Len(rows[3]) = 0

\* C2: a cell with span s > 1 written to column c at row r is repeated in
\* column c of every output row r+1 .. r+s-1 that exists, and none of those
\* rows takes one of its own cells for column c.
C2_SpanCarried ==
    WellFormed =>
        \A r \in 1..Len(row_data) : \A c \in 1..W :
            (Written(r, c) /\ SpanCount(CellAt(r, c)) > 1) =>
                \A j \in (r + 1)..LastCovered(r, SpanCount(CellAt(r, c))) :
                    /\ row_data[j][c] = row_data[r][c]
                    /\ origin[j][c] = 0
                    /\ pc = "returned" => ret[1].data[j][c] = CellText(CellAt(r, c))

C2_Witness ==
    /\ pc = "returned"
    /\ WellFormed
    /\ W = 2
    /\ Len(rows) = 3
    /\ Written(1, 1) /\ SpanCount(CellAt(1, 1)) = 3
    /\ CellText(CellAt(1, 1)) # <<>>
    /\ Len(rows[2]) = 1 /\ CellText(rows[2][1]) = <<>>
    /\ Len(rows[3]) = 1 /\ CellText(rows[3][1]) = <<>>

\* C3: a span expires after exactly s rows: when a cell with span s >= 1 is
\* written to column c at row r and row r+s exists, column c of output row
\* r+s holds the text of a cell of row r+s itself, not a copy.
C3_SpanExpires ==
    WellFormed =>
        \A r \in 1..Len(row_data) : \A c \in 1..W :
            (Written(r, c) /\ r + SpanCount(CellAt(r, c)) <= Len(row_data)) =>
                LET j == r + SpanCount(CellAt(r, c))
                IN /\ Written(j, c)
                   /\ origin[j][c] = CellFor(Owed(j - 1), c)
                   /\ row_data[j][c] = CellText(CellAt(j, c))

C3_Witness ==
    /\ WellFormed
    /\ Len(row_data) = 3
    /\ Written(1, 1) /\ SpanCount(CellAt(1, 1)) = 2
    /\ origin[2][1] = 0
    /\ Written(3, 1)
    /\ row_data[3][1] # row_data[1][1]
\* the last row a span of s rows starting at row r covers
SpanEnd(r, s) == r + s - 1

\* a cell that starts a span of more than one row was written to column c
\* at row r
SpanStart(r, c) == Written(r, c) /\ SpanCount(CellAt(r, c)) > 1

\* columns c1 and c2 hold spans written at rows r1 and r2, of different
\* lengths, that cover at least one common row
OverlappingSpans(r1, c1, r2, c2) ==
    /\ c1 # c2
    /\ SpanStart(r1, c1)
    /\ SpanStart(r2, c2)
    /\ SpanCount(CellAt(r1, c1)) # SpanCount(CellAt(r2, c2))
    /\ r1 <= SpanEnd(r2, SpanCount(CellAt(r2, c2)))
    /\ r2 <= SpanEnd(r1, SpanCount(CellAt(r1, c1)))

\* the number of cells of output row j taken from the input row in
\* columns 1..c
TakenUpTo(j, c) == Cardinality({d \in 1..c : origin[j][d] # 0})

\* C4: two columns holding spans of different lengths over overlapping rows
\* are owned independently: each is copied for exactly the rows of its own
\* span and takes a cell again in the row after it, and in every row from
\* the first span's start to the row after the last span's end the k-th
\* supplied cell lands in the k-th column that is not owned.
C4_IndependentSpans ==
    WellFormed =>
        \A r1 \in 1..Len(row_data) : \A c1 \in 1..W :
            SpanStart(r1, c1) =>
                \A c2 \in 1..W : \A r2 \in 1..Len(row_data) :
                    OverlappingSpans(r1, c1, r2, c2) =>
                        LET s1 == SpanCount(CellAt(r1, c1))
                            s2 == SpanCount(CellAt(r2, c2))
                            first == Min(r1, r2)
                            last == Min(Len(row_data),
                                        IF r1 + s1 > r2 + s2 THEN r1 + s1 ELSE r2 + s2)
                        IN /\ \A j \in (r1 + 1)..LastCovered(r1, s1) :
                                  /\ origin[j][c1] = 0
                                  /\ row_data[j][c1] = row_data[r1][c1]
                           /\ r1 + s1 <= Len(row_data) => origin[r1 + s1][c1] # 0
                           /\ c1 < c2 =>
                                  \A j \in first..last :
                                      /\ TakenUpTo(j, W) = Len(rows[j])
                                      /\ \A c \in 1..W :
                                            origin[j][c] # 0 =>
                                               /\ origin[j][c] = TakenUpTo(j, c)
                                               /\ row_data[j][c] =
                                                     CellText(rows[j][origin[j][c]])

C4_Witness ==
    /\ WellFormed
    /\ W = 2
    /\ Len(row_data) = 3
    /\ OverlappingSpans(1, 1, 1, 2)
    /\ SpanCount(CellAt(1, 1)) = 2
    /\ SpanCount(CellAt(1, 2)) = 3
    /\ origin[2] = <<0, 0>>
    /\ origin[3] = <<1, 0>>
    /\ row_data[3][1] # row_data[1][1]
    /\ row_data[3][2] = row_data[1][2]

\* C5: a row that supplies fewer than W cells while no column is owned by
\* an active span ends the call in an error: an exception is raised and
\* nothing is returned.
C5_ShortRowRaises ==
    \A i \in 1..Len(rows) :
        (/\ WellFormedUpTo(i - 1)
         /\ FreeCols(Owed(i - 1)) = 1..W
         /\ Len(rows[i]) < W) =>
            /\ pc = "raised"
            /\ exc # ""
            /\ ret = <<>>
            /\ i = Len(rows)

C5_Witness ==
    /\ pc = "raised"
    /\ W = 2
    /\ Len(rows) = 3
    /\ WellFormedUpTo(2)
    /\ SpanCount(rows[1][1]) = 2
    /\ FreeCols(Owed(2)) = 1..W
    /\ Len(rows[3]) = 1
    /\ ret = <<>>

\* C6 (the claim as stated): a row that supplies more cells than there are
\* columns not owned by an active span makes the call fail: a call given
\* such a row never drops the extra cells and returns a table.
C6_ExtraCellsRaise ==
    \A i \in 1..Len(rows) :
        (/\ W >= 1
         /\ WellFormedUpTo(i - 1)
         /\ Len(rows[i]) > Cardinality(FreeCols(Owed(i - 1)))) =>
            pc # "returned"

\* C7 (the claim as stated): with an empty header the call fails with
\* InvalidHeaderError for every row sequence and returns no table.
C7_EmptyHeaderRaises ==
    (W = 0 /\ pc # "loop") =>
        /\ pc = "raised"
        /\ exc = "InvalidHeaderError"
        /\ ret = <<>>
\* the rows with every missing rowspan written out as "1": two tables that
\* differ only in a span of 1 being written or left out have the same image
RowspanExplicit(rs) ==
    [i \in 1..Len(rs) |-> [k \in 1..Len(rs[i]) |->
        IF rs[i][k].rowspan = <<>>
        THEN [rs[i][k] EXCEPT !.rowspan = <<"1">>] ELSE rs[i][k]]]

NoSpans ==
    \A i \in 1..Len(rows) :
        /\ Len(rows[i]) = W
        /\ \A k \in 1..W : rows[i][k].rowspan \in {<<>>, <<"1">>}

\* every cell has span 1 or no span attribute, whatever the length of its row
NoSpanDeclared ==
    \A i \in 1..Len(rows) : \A k \in 1..Len(rows[i]) :
        rows[i][k].rowspan \in {<<>>, <<"1">>}

\* C8: when every row has exactly W cells, each with span 1 or no span
\* attribute, output row i is the texts of input row i in order; and the
\* outcome of a call on rows whose cells all have span 1 or no span
\* attribute is the one of the call on the same rows with every missing
\* span written as 1, so writing a span of 1 or leaving it out on any cell
\* changes nothing.
C8_NoSpanIdentity ==
    /\ NoSpans =>
          /\ pc # "raised"
          /\ Len(row_data) = Len(rows)
          /\ \A i \in 1..Len(rows) :
                row_data[i] = [c \in 1..W |-> CellText(rows[i][c])]
          /\ pc = "returned" => ret[1].data = row_data
    /\ (pc # "loop" /\ NoSpanDeclared) =>
          parse_bs_table(headers, RowspanExplicit(rows)) = [exc |-> exc, ret |-> ret]

C8_Witness ==
    /\ pc = "returned"
    /\ NoSpans
    /\ W = 2
    /\ Len(rows) = 2
    /\ rows[1][1].rowspan = <<>> /\ rows[1][2].rowspan = <<"1">>
    /\ rows[2][1].rowspan = <<"1">> /\ rows[2][2].rowspan = <<>>
    /\ ret[1].data[1] = << <<"y">>, <<>> >>
    /\ ret[1].data[2] = << <<>>, <<"y">> >>

\* C9: a spanning cell (s > 1) whose text is empty fills its column with
\* the empty string in every following row it covers.
C9_EmptySpanCarried ==
    WellFormed =>
        \A r \in 1..Len(row_data) : \A c \in 1..W :
            (/\ Written(r, c)
             /\ SpanCount(CellAt(r, c)) > 1
             /\ CellText(CellAt(r, c)) = <<>>) =>
                \A j \in (r + 1)..LastCovered(r, SpanCount(CellAt(r, c))) :
                    /\ row_data[j][c] = <<>>
                    /\ pc = "returned" => ret[1].data[j][c] = <<>>

C9_Witness ==
    /\ pc = "returned"
    /\ WellFormed
    /\ Len(rows) = 3
    /\ \E c \in 1..W :
          /\ row_data[1][c] # <<>>
          /\ Written(2, c)
          /\ SpanCount(CellAt(2, c)) > 1
          /\ CellText(CellAt(2, c)) = <<>>
          /\ origin[3][c] = 0
          /\ ret[1].data[3][c] = <<>>

\* C10: a span that declares more rows than the input has left is no
\* error: the call builds one row per input row, carries the value down to
\* the last row, and returns.
C10_SpanPastLastRow ==
    WellFormed =>
        \A r \in 1..Len(row_data) : \A c \in 1..W :
            (Written(r, c) /\ r + SpanCount(CellAt(r, c)) - 1 > Len(rows)) =>
                /\ pc # "raised"
                /\ Len(row_data) = Len(rows)
                /\ \A j \in r..Len(rows) : row_data[j][c] = CellText(CellAt(r, c))
                /\ pc = "returned" =>
                      /\ Len(ret[1].data) = Len(rows)
                      /\ \A j \in r..Len(rows) :
                            ret[1].data[j][c] = CellText(CellAt(r, c))

C10_Witness ==
    /\ pc = "returned"
    /\ WellFormed
    /\ Len(rows) = 2
    /\ \E c \in 1..W :
          /\ Written(1, c)
          /\ SpanCount(CellAt(1, c)) = 3
          /\ CellText(CellAt(1, c)) # <<>>
          /\ origin[2][c] = 0

\* C11 (the claim as stated): a cell whose span count is 0 or negative never
\* makes its column owned: when such a cell was written to column c at row
\* r, in rows that follow the data model up to there, and the call goes on
\* to build row r+1, column c of row r+1 takes a cell of row r+1 and is not
\* copied from row r.
C11_NonPositiveSpanOwnsNothing ==
    \A r \in 1..Len(row_data) : \A c \in 1..W :
        (/\ WellFormedUpTo(r - 1)
         /\ Len(rows[r]) = Cardinality(FreeCols(Owed(r - 1)))
         /\ Written(r, c)
         /\ SpanCount(CellAt(r, c)) <= 0
         /\ r + 1 <= Len(row_data)) =>
            origin[r + 1][c] # 0

\* C16 (the claim as stated): with a non-empty header, after any prefix of
\* any row sequence every row built so far holds exactly W values and the
\* span pattern carried to the next row has exactly W entries.
C16_WidthKept ==
    W >= 1 =>
        /\ \A i \in 1..Len(row_data) : Len(row_data[i]) = W
        /\ Len(previous_pattern) = W

\* C18 (the claim as stated): for every row the loop builds and every
\* column c, the pattern entry carried on is the previous entry minus one
\* when column c was copied from the previous output row, and the span
\* count of the very cell that was written when column c took a cell of the
\* row.
C18_PatternMatchesWritten ==
    [][Len(row_data') = Len(row_data) + 1 =>
          LET r == Len(row_data')
          IN \A c \in 1..W :
                IF origin'[r][c] = 0
                THEN previous_pattern'[c] = previous_pattern[c] - 1
                ELSE previous_pattern'[c] = SpanCount(rows'[r][origin'[r][c]])]_vars

\* the message of the exception names the number n
Names(msg, n) == \E k \in 1..Len(msg) : msg[k] = str(n)

\* C13 (the claim as stated): when the call fails at a row whose cells do
\* not reconcile with the active spans, the error raised names the index of
\* that row (counted from 0 or from 1) and the expected and the actual
\* number of new cells.
C13_ErrorNamesRow ==
    \A i \in 1..Len(rows) :
        (/\ pc = "raised"
         /\ i = Len(rows)
         /\ WellFormedUpTo(i - 1)
         /\ Len(rows[i]) # Cardinality(FreeCols(Owed(i - 1)))) =>
            /\ Names(exc_args, i - 1) \/ Names(exc_args, i)
            /\ Names(exc_args, Cardinality(FreeCols(Owed(i - 1))))
            /\ Names(exc_args, Len(rows[i]))

\* C17: in every row built after rows that follow the data model, a column
\* owned by an active span takes no cell of the row, and the k-th column
\* not owned by a span, counting from the left, holds the text of the k-th
\* cell of the row.
C17_LeftToRight ==
    \A i \in 1..Len(row_data) :
        WellFormedUpTo(i - 1) =>
            \A c \in 1..W :
                IF Owed(i - 1)[c] > 0
                THEN origin[i][c] = 0
                ELSE LET k == CellFor(Owed(i - 1), c)
                     IN /\ origin[i][c] = k
                        /\ row_data[i][c] = CellText(rows[i][k])

C17_Witness ==
    /\ WellFormed
    /\ W = 2
    /\ Len(row_data) = 2
    /\ origin[1] = <<1, 2>>
    /\ CellText(rows[1][1]) = <<>> /\ CellText(rows[1][2]) = <<"y">>
    /\ row_data[1] = << <<>>, <<"y">> >>
    /\ origin[2] = <<0, 1>>
    /\ CellText(rows[2][1]) = <<"y">>
    /\ row_data[2] = << <<>>, <<"y">> >>

C12_WitnessError ==
    /\ first_call # <<>>
    /\ pc = "raised"
    /\ Len(rows) = 2
    /\ exc = "IndexError"
    /\ first_call[1].exc = "IndexError"

\* the index labels of the rows of a frame whose status is 'Serving', in
\* the order of the frame
RECURSIVE ServingLabels(_, _)
ServingLabels(frame, i) ==
    IF i > Len(frame.rows) THEN <<>>
    ELSE IF frame.rows[i][status_col] = Serving
         THEN <<frame.index[i]>> \o ServingLabels(frame, i + 1)
         ELSE ServingLabels(frame, i + 1)

\* the frame returned holds the rows of the caller's frame whose status is
\* 'Serving', in their order, and no other row
ReturnsServingRows ==
    /\ pc = "returned"
    /\ ret[1].index = ServingLabels(data, 1)
    /\ \A k \in 1..Len(ret[1].rows) :
          /\ ret[1].rows[k][status_col] = Serving
          /\ \A c \in DOMAIN ret[1].rows[k] :
                ret[1].rows[k][c] = data.rows[ret[1].index[k] + 1][c]

\* C14 (the claim as stated): for every table, clean_ethnicity returns
\* exactly the rows whose status column equals 'Serving', in their original
\* order.
C14_KeepsServing ==
    pc # "clean_ethnicity" => ReturnsServingRows

\* C14, for the tables that have at least one row: the rows returned are
\* exactly the rows whose status equals 'Serving', in their original order.
C14_KeepsServingOfRows ==
    (pc # "clean_ethnicity" /\ Len(data.rows) >= 1) => ReturnsServingRows

\* a person on three rows, serving only in the second one
C14_WitnessOfRows ==
    /\ pc = "returned"
    /\ Len(data.rows) = 3
    /\ \A i \in 1..3 : data.rows[i][name_col] = <<"A">>
    /\ ret[1].index = <<1>>

\* the rows of the characteristic frame that agree with the member row m
\* on the columns `on`
Matching(m, characteristics, on) ==
    {k \in 1..Len(characteristics.rows) :
        \A c \in Range(on) : characteristics.rows[k][c] = m[c]}

\* the row r of the table returned is the member row m, with the
\* characteristics of one of the rows `found` of the characteristic frame,
\* or with blank characteristics when there is none
IsMemberWith(r, m, characteristics, found) ==
    /\ \A c \in Range(MemberColumns) : r[c] = m[c]
    /\ IF found = {}
       THEN r["_merge"] = "left_only" /\ r["clearName"] = NaN
       ELSE /\ r["_merge"] = "both"
            /\ \E k \in found : r["clearName"] = characteristics.rows[k]["clearName"]

\* C15: a call of add_characteristics returns a table in which every row
\* of member_data appears: with the characteristics of a row it matches on
\* the primary merge columns when there is one; otherwise with the
\* characteristics of a row it matches on the backup columns, or with blank
\* characteristics when it matches none.
C15_NoMemberLost ==
    [][(pc = "add_characteristics" /\ pc' # pc) =>
          /\ pc' = "returned"
          /\ \A i \in 1..Len(member_data.rows) :
                LET m == member_data.rows[i]
                    primary == Matching(m, characteristic_data, default_columns)
                    backup == Matching(m, characteristic_data, backup_columns)
                IN \E j \in 1..Len(ret'[1].rows) :
                      IsMemberWith(ret'[1].rows[j], m, characteristic_data,
                                   IF primary # {} THEN primary ELSE backup)]_vars

\* two members: the first matched by the first merge, the second by
\* neither, and so returned with blank characteristics and reported
C15_Witness ==
    /\ pc = "returned"
    /\ Len(member_data.rows) = 2
    /\ Len(ret[1].rows) = 2
    /\ ret[1].rows[1]["@Member_Id"] = member_data.rows[1]["@Member_Id"]
    /\ ret[1].rows[1]["_merge"] = "both"
    /\ ret[1].rows[1]["clearName"] = "ann"
    /\ ret[1].rows[2]["@Member_Id"] = member_data.rows[2]["@Member_Id"]
    /\ ret[1].rows[2]["_merge"] = "left_only"
    /\ ret[1].rows[2]["clearName"] = NaN
    /\ Len(reported) = 1
====
